---- MODULE Spec2Model ----
(***************************************************************************)
(* The workflow orchestration engine of video-toolkit-refactored:          *)
(* WorkflowManager.execute_workflow driving WorkflowStepExecutor over the   *)
(* steps of a preset, with cancel_workflow as the only concurrent caller.   *)
(* One state per point at which the Python code can be observed: the       *)
(* coroutine is atomic between two awaits, and cancel_workflow (a plain     *)
(* method) can only run while execute_workflow is suspended in the await    *)
(* of _execute_step.                                                        *)
(***************************************************************************)
EXTENDS Integers, Sequences, FiniteSets, TLC

VARIABLES
    preset_known,     \* input: preset_key in WORKFLOW_PRESETS
    steps,            \* input: WORKFLOW_PRESETS[preset_key]['steps']
    options,          \* input: the options dict (a function on the keys given)
    video_source,     \* input: kind of video_source ("http", "duanju", "local")
    pc,               \* position of execute_workflow
    idx,              \* index (1-based) of the step of the for loop
    waited,           \* seconds execute_workflow has waited on the step in progress
    status,           \* context.status
    error,            \* context.error
    current_step,     \* context.current_step
    start_time,       \* context.start_time is set
    end_time,         \* context.end_time is set
    working_dir,      \* context.working_dir
    video_file,       \* context.video_file
    subtitle_files,   \* context.subtitle_files
    output_files,     \* context.output_files
    step_results,     \* context.step_results (the set of its keys)
    upload_record,    \* content of working_dir/upload_results.json
    enabled_platforms,\* config.platforms.enabled_platforms (process-wide config)
    split_duration,   \* config.processing.split_duration (process-wide config)
    active_workflows, \* WorkflowManager.active_workflows (the set of its keys)
    report,           \* the dict execute_workflow returned
    started,          \* history: the steps handed to _execute_step, in order
    failed,           \* history: the indexes of the steps whose StepError was caught
    cancel_at,        \* history: Len(started) at the first cancel_workflow, or -1
    in_flight,        \* history: indexes of the steps whose handler or collaborator works
    record_writes,    \* history: how many times upload_results.json was written
    up_platforms,     \* parallel_upload: its argument platforms
    up_limit,         \* parallel_upload: its argument limit
    behaviour,        \* parallel_upload: what the uploader of each destination does
    sem,              \* parallel_upload: the value of the asyncio.Semaphore
    tasks,            \* parallel_upload: the position of each _wrapped(p)
    outcomes,         \* parallel_upload: what each finished _wrapped(p) gave
    completed,        \* parallel_upload: the indexes of the finished uploads, in order
    coordinator,      \* parallel_upload: the position and the result of the call
    other_options,    \* a second execute_workflow call: its options
    other_id,         \* a second execute_workflow call: its workflow_id
    other_pc,         \* a second execute_workflow call: its position
    cli,              \* cli.commands.main: its arguments, position and exit code
    retry_func,       \* utils.retry: which of retry_sync and retry_async is called
    retries,          \* utils.retry: its argument retries
    delay,            \* utils.retry: its argument delay
    exceptions,       \* utils.retry: its argument exceptions, a set of classes
    attempt,          \* utils.retry: the loop variable
    retry_pc,         \* utils.retry: the position of the call
    calls,            \* utils.retry: what each call of the operation gave, in order
    sleeps,           \* utils.retry: the duration of each sleep, in order
    retry_result      \* utils.retry: what the call returned or raised

\* the variables of one call of parallel_upload
uvars == <<up_platforms, up_limit, behaviour, sem, tasks, outcomes, completed,
           coordinator>>

\* the variables of one call of execute_workflow
wvars == <<preset_known, steps, options, video_source, pc, idx, waited, status,
           error, current_step, start_time, end_time, working_dir, video_file,
           subtitle_files, output_files, step_results, upload_record,
           enabled_platforms, split_duration, active_workflows, report,
           started, failed, cancel_at, in_flight, record_writes>>

\* the variables of the callers of the manager: a second run and the command line
ovars == <<other_options, other_id, other_pc, cli>>

\* the variables of one call of retry_sync or retry_async
rvars == <<retry_func, retries, delay, exceptions, attempt, retry_pc, calls,
           sleeps, retry_result>>

vars == <<wvars, uvars, ovars, rvars>>

(***************************************************************************)
(* Bounds of the model.                                                    *)
(***************************************************************************)
\* longest step list of a preset
MaxSteps == 3
\* clock ticks a blocking collaborator may go on after the step's deadline
MaxOverrun == 1

(***************************************************************************)
(* Step identifiers: the names execute_step dispatches on.                 *)
(***************************************************************************)
WorkflowStep ==
    {"download", "concat", "split_av", "isolate_vocals", "merge_av", "subtitle",
     "translate_subtitle", "embed_subtitle", "split_final", "watermark", "upload"}

\* an identifier that is no member of WorkflowStep
UnknownStep == "thumbnail"

StepNames == WorkflowStep \cup {UnknownStep}

RECURSIVE SeqsUpTo(_, _)
SeqsUpTo(S, n) ==
    IF n = 0 THEN {<<>>}
    ELSE LET shorter == SeqsUpTo(S, n - 1)
         IN  shorter \cup {Append(s, x) : s \in {t \in shorter : Len(t) = n - 1}, x \in S}

Range(s) == {s[i] : i \in 1..Len(s)}

\* the option dicts of the model: any subset of the two recognised keys
OptionDicts ==
    {[k \in K |-> IF k = "platforms" THEN <<"telegram">> ELSE 60] :
        K \in SUBSET {"platforms", "split_duration"}}

SourceKinds == {"http", "duanju", "local"}

\* the process-wide configuration get_config() holds before any run
\* (split_duration 0 stands for None: both are false in "if duration:")
DefaultConfig == [enabled_platforms |-> <<"tiktok">>, split_duration |-> 0]

NoFile == <<>>
NoError == [type |-> "None", step |-> "None", msg |-> "None"]
NoReport == [kind |-> "none", success |-> FALSE, error |-> "None",
             failed_step |-> "None", partial_results |-> {}, output_files |-> <<>>]

(***************************************************************************)
(* WorkflowManager helpers.                                                *)
(***************************************************************************)
\* a variant that gives every step the default timeout
_get_step_timeout_uniform(step_name) == 900

_get_step_timeout(step_name) ==
    CASE step_name = "download" -> 3600
      [] step_name = "subtitle" -> 1800
      [] step_name = "upload"   -> 1800
      [] OTHER                  -> 900

\* a variant in which a failed upload no longer aborts the run
_is_critical_step_download_only(step_name) == step_name = "download"

\* a variant in which every failed step aborts the run
_is_critical_step_every_step(step_name) == TRUE

\* a variant in which a failed download no longer aborts the run
_is_critical_step_upload_only(step_name) == step_name = "upload"

_is_critical_step(step_name) == step_name \in {"download", "upload"}

step_dependencies ==
    [s \in {"merge_av", "translate_subtitle", "embed_subtitle"} |->
        IF s = "merge_av" THEN {"split_av"} ELSE {"subtitle"}]

\* TRUE iff _validate_workflow_steps returns without raising
_validate_workflow_steps(ss) ==
    /\ \A i \in 1..Len(ss) : ss[i] \in WorkflowStep
    /\ \A i \in 1..Len(ss) :
          ss[i] \in DOMAIN step_dependencies =>
              \A dependency \in step_dependencies[ss[i]] : dependency \in Range(ss)

\* the clock advances by the largest unit that divides every step timeout
Quantum ==
    CHOOSE g \in 1..900 :
        /\ \A s \in WorkflowStep : _get_step_timeout(s) % g = 0
        /\ \A h \in 1..900 : (\A s \in WorkflowStep : _get_step_timeout(s) % h = 0) => h <= g

(***************************************************************************)
(* WorkflowStepExecutor: what each step handler may do to the context.     *)
(* A handler yields the set of its possible outcomes, one per result the    *)
(* collaborator can give. An outcome says whether the handler raised,       *)
(* whether it got as far as calling its collaborator (only such a call      *)
(* takes time), and what the context's file fields and the results file     *)
(* are afterwards. A path is the sequence of name parts it was built from.  *)
(***************************************************************************)
Outcome(raised, called, vf, subs, outs, rec) ==
    [raised |-> raised, called |-> called, video_file |-> vf,
     subtitle_files |-> subs, output_files |-> outs, upload_record |-> rec]

\* the handler raises before it calls a collaborator
RaisesAtOnce ==
    Outcome(TRUE, FALSE, video_file, subtitle_files, output_files, upload_record)
\* the handler returns before it calls a collaborator
ReturnsAtOnce ==
    Outcome(FALSE, FALSE, video_file, subtitle_files, output_files, upload_record)
\* the collaborator raises, or gives a result for which the handler raises
CollaboratorFails ==
    Outcome(TRUE, TRUE, video_file, subtitle_files, output_files, upload_record)
\* the collaborator gives a result for which the handler changes nothing
CollaboratorDeclines ==
    Outcome(FALSE, TRUE, video_file, subtitle_files, output_files, upload_record)

\* a variant of add_output_file that keeps the newest entry only
add_output_file_replacing(outs, file_path, file_type) ==
    <<[path |-> file_path, type |-> file_type]>>

\* WorkflowContext.add_output_file
add_output_file(outs, file_path, file_type) ==
    Append(outs, [path |-> file_path, type |-> file_type])

_download ==
    IF video_source \in {"duanju", "http"}
    THEN {CollaboratorFails,
          Outcome(FALSE, TRUE, <<"downloaded">>, subtitle_files,
                  add_output_file(output_files, <<"downloaded">>, "download"),
                  upload_record)}
    ELSE {RaisesAtOnce,     \* FileNotFoundError: the local source does not exist
          Outcome(FALSE, FALSE, <<"source">>, subtitle_files, output_files,
                  upload_record)}

_concat ==
    IF video_file # NoFile
    THEN {ReturnsAtOnce,    \* video_file is no directory
          CollaboratorFails,
          Outcome(FALSE, TRUE, <<"combined_video">>, subtitle_files,
                  add_output_file(output_files, <<"combined_video">>, "video"),
                  upload_record)}
    ELSE {ReturnsAtOnce}

\* asyncio.sleep(0.05)
_noop == {ReturnsAtOnce}

_subtitle ==
    IF video_file = NoFile
    THEN {RaisesAtOnce}
    ELSE {CollaboratorFails,
          Outcome(FALSE, TRUE, video_file, Append(subtitle_files, <<"srt">>),
                  output_files, upload_record)}

\* a variant that raises when there is no subtitle file to translate
_translate_requires_subtitle ==
    IF subtitle_files = <<>>
    THEN {RaisesAtOnce}
    ELSE LET src_srt == subtitle_files[Len(subtitle_files)]
         IN  {CollaboratorFails,
              CollaboratorDeclines,
              Outcome(FALSE, TRUE, video_file,
                      Append(subtitle_files, Append(src_srt, "translated")),
                      output_files, upload_record)}

_translate ==
    IF subtitle_files = <<>>
    THEN {ReturnsAtOnce}
    ELSE LET src_srt == subtitle_files[Len(subtitle_files)]
         IN  {CollaboratorFails,
              CollaboratorDeclines,
              Outcome(FALSE, TRUE, video_file,
                      Append(subtitle_files, Append(src_srt, "translated")),
                      output_files, upload_record)}

_embed ==
    IF video_file = NoFile
    THEN {RaisesAtOnce}
    ELSE IF subtitle_files = <<>>
    THEN {ReturnsAtOnce}
    ELSE LET out == Append(video_file, "with_subtitle")
         IN  {CollaboratorFails,
              CollaboratorDeclines,
              Outcome(FALSE, TRUE, out, subtitle_files,
                      add_output_file(output_files, out, "processed"),
                      upload_record)}

_split_final ==
    IF video_file = NoFile \/ split_duration = 0
    THEN {ReturnsAtOnce}
    ELSE LET part(n) == Append(Append(video_file, "part"), n)
         IN  {CollaboratorFails,
              Outcome(FALSE, TRUE, video_file, subtitle_files,
                      add_output_file(output_files, part("001"), "part"),
                      upload_record),
              Outcome(FALSE, TRUE, video_file, subtitle_files,
                      add_output_file(add_output_file(output_files, part("001"), "part"),
                                      part("002"), "part"),
                      upload_record)}

\* a variant that takes the output of embed_watermark whatever it reports
_watermark_unchecked ==
    IF video_file = NoFile
    THEN {ReturnsAtOnce}
    ELSE LET out == Append(video_file, "wm")
         IN  {CollaboratorFails,
              Outcome(FALSE, TRUE, out, subtitle_files, output_files,
                      upload_record),
              Outcome(FALSE, TRUE, out, subtitle_files,
                      add_output_file(output_files, out, "processed"),
                      upload_record)}

_watermark ==
    IF video_file = NoFile
    THEN {ReturnsAtOnce}
    ELSE LET out == Append(video_file, "wm")
         IN  {CollaboratorFails,
              CollaboratorDeclines,
              Outcome(FALSE, TRUE, out, subtitle_files,
                      add_output_file(output_files, out, "processed"),
                      upload_record)}

\* the lists parallel_upload can return for these platforms: one outcome per
\* platform, in the order of the platforms
UploadResults(platforms) ==
    {[i \in 1..Len(platforms) |-> [platform |-> platforms[i], success |-> ok[i]]] :
        ok \in [1..Len(platforms) -> BOOLEAN]}

\* a variant that raises when there is no video file to upload
_upload_requires_video ==
    IF video_file = NoFile
    THEN {RaisesAtOnce}
    ELSE LET platforms == IF "platforms" \in DOMAIN options
                          THEN options["platforms"] ELSE enabled_platforms
         IN  {CollaboratorFails}
             \cup {Outcome(FALSE, TRUE, video_file, subtitle_files, output_files,
                           results) :
                      results \in UploadResults(platforms)}

\* a variant in which the failure of a destination leaves parallel_upload as
\* an exception: only a list of successes is saved
_upload_propagating ==
    IF video_file = NoFile
    THEN {ReturnsAtOnce}
    ELSE LET platforms == IF "platforms" \in DOMAIN options
                          THEN options["platforms"] ELSE enabled_platforms
         IN  {CollaboratorFails}
             \cup {Outcome(FALSE, TRUE, video_file, subtitle_files, output_files,
                           results) :
                      results \in {r \in UploadResults(platforms) :
                                      \A i \in 1..Len(r) : r[i].success}}

_upload ==
    IF video_file = NoFile
    THEN {ReturnsAtOnce}
    ELSE LET platforms == IF "platforms" \in DOMAIN options
                          THEN options["platforms"] ELSE enabled_platforms
         IN  {CollaboratorFails}    \* save_upload_results cannot write the file
             \cup {Outcome(FALSE, TRUE, video_file, subtitle_files, output_files,
                           results) :
                      results \in UploadResults(platforms)}

\* WorkflowStepExecutor.execute_step: the dispatch on the step name
execute_step(step_name) ==
    CASE step_name = "download"           -> _download
      [] step_name = "concat"             -> _concat
      [] step_name = "split_av"           -> _noop
      [] step_name = "isolate_vocals"     -> _noop
      [] step_name = "merge_av"           -> _noop
      [] step_name = "subtitle"           -> _subtitle
      [] step_name = "translate_subtitle" -> _translate
      [] step_name = "embed_subtitle"     -> _embed
      [] step_name = "split_final"        -> _split_final
      [] step_name = "watermark"          -> _watermark
      [] step_name = "upload"             -> _upload
      [] OTHER                            -> {RaisesAtOnce}

\* no second run and no command line are followed
NoOthers ==
    /\ other_options = [k \in {} |-> 0]
    /\ other_id = "None"
    /\ other_pc = "absent"
    /\ cli = [command |-> "None", at |-> "absent", exit_code |-> -1]

\* no call of parallel_upload is followed
NoUpload ==
    /\ up_platforms = <<>>
    /\ up_limit = 0
    /\ behaviour = <<>>
    /\ sem = 0
    /\ tasks = <<>>
    /\ outcomes = <<>>
    /\ completed = <<>>
    /\ coordinator = [at |-> "none", results |-> <<>>]

\* no call of retry_sync or retry_async is followed
NoRetry ==
    /\ retry_func = "None"
    /\ retries = 0
    /\ delay = 0
    /\ exceptions = {}
    /\ attempt = 0
    /\ retry_pc = "absent"
    /\ calls = <<>>
    /\ sleeps = <<>>
    /\ retry_result = [kind |-> "none", value |-> "None"]

(***************************************************************************)
(* The initial states: the manager is constructed and execute_workflow is  *)
(* about to be called with some preset, options and source.                *)
(***************************************************************************)
Init ==
    /\ preset_known \in BOOLEAN
    /\ steps \in IF preset_known THEN SeqsUpTo(StepNames, MaxSteps) ELSE {<<>>}
    /\ options \in OptionDicts
    /\ video_source \in SourceKinds
    /\ pc = "idle"
    /\ idx = 0
    /\ waited = 0
    /\ status = "pending"
    /\ error = NoError
    /\ current_step = "None"
    /\ start_time = FALSE
    /\ end_time = FALSE
    /\ working_dir = "None"
    /\ video_file = NoFile
    /\ subtitle_files = <<>>
    /\ output_files = <<>>
    /\ step_results = {}
    /\ upload_record = <<>>
    /\ enabled_platforms = DefaultConfig.enabled_platforms
    /\ split_duration = DefaultConfig.split_duration
    /\ active_workflows = {}
    /\ report = NoReport
    /\ started = <<>>
    /\ failed = {}
    /\ cancel_at = -1
    /\ in_flight = {}
    /\ record_writes = 0
    /\ NoUpload
    /\ NoRetry
    /\ NoOthers

\* the one workflow id of the run
workflow_id == "workflow_1"

\* WorkflowContext.set_error: the fields it assigns
set_error(e, step) ==
    [error |-> e, status |-> "failed",
     current_step |-> IF step # "None" THEN step ELSE current_step]

\* a variant of the failure report that does not name the step
FailureReport_without_step(e, failed_step) ==
    [kind |-> "failure", success |-> FALSE, error |-> e.type,
     failed_step |-> "None", partial_results |-> step_results,
     output_files |-> <<>>]

\* the failure report of the outer except clause, for a context whose
\* current_step is failed_step
FailureReport(e, failed_step) ==
    [kind |-> "failure", success |-> FALSE, error |-> e.type,
     failed_step |-> failed_step, partial_results |-> step_results,
     output_files |-> <<>>]

\* a variant of the success report that lists no output file
SuccessReport_without_files ==
    [kind |-> "success", success |-> TRUE, error |-> "None",
     failed_step |-> "None", partial_results |-> {}, output_files |-> <<>>]

\* the report of a completed run
SuccessReport ==
    [kind |-> "success", success |-> TRUE, error |-> "None",
     failed_step |-> "None", partial_results |-> {},
     output_files |-> [i \in 1..Len(output_files) |-> output_files[i].path]]

\* _prepare_workflow applies the options to the process-wide configuration
OptionsApplied(key, current) ==
    IF key \in DOMAIN options THEN options[key] ELSE current

\* execute_workflow when _prepare_workflow raises WorkflowValidationError:
\* the outer except clause reports the failure
execute_workflow_rejected ==
    /\ pc = "idle"
    /\ ~preset_known \/ ~_validate_workflow_steps(steps)
    /\ LET e == [type |-> "WorkflowValidationError", step |-> "None",
                 msg |-> IF preset_known THEN "invalid steps" ELSE "unknown preset"]
           ctx == set_error(e, "None")
       IN  /\ error' = ctx.error
           /\ status' = ctx.status
           /\ current_step' = ctx.current_step
           /\ end_time' = TRUE
           /\ report' = FailureReport(e, ctx.current_step)
    /\ enabled_platforms' =
          IF preset_known THEN OptionsApplied("platforms", enabled_platforms)
          ELSE enabled_platforms
    /\ split_duration' =
          IF preset_known THEN OptionsApplied("split_duration", split_duration)
          ELSE split_duration
    /\ pc' = "returned"
    /\ UNCHANGED <<preset_known, steps, options, video_source, idx, waited,
                   start_time, working_dir, video_file, subtitle_files,
                   output_files, step_results, upload_record, active_workflows,
                   started, failed, cancel_at,
                   in_flight, record_writes, uvars, ovars, rvars>>

\* a variant that does not set up the working directory
execute_workflow_start_without_directory ==
    /\ pc = "idle"
    /\ preset_known
    /\ _validate_workflow_steps(steps)
    /\ enabled_platforms' = OptionsApplied("platforms", enabled_platforms)
    /\ split_duration' = OptionsApplied("split_duration", split_duration)
    /\ working_dir' = working_dir
    /\ active_workflows' = active_workflows \cup {workflow_id}
    /\ status' = "running"
    /\ start_time' = TRUE
    /\ idx' = 1
    /\ pc' = "loop"
    /\ UNCHANGED <<preset_known, steps, options, video_source, waited, error,
                   current_step, end_time, video_file, subtitle_files,
                   output_files, step_results, upload_record, report, started,
                   failed, cancel_at,
                   in_flight, record_writes, uvars, ovars, rvars>>

\* execute_workflow up to the head of the for loop
execute_workflow_start ==
    /\ pc = "idle"
    /\ preset_known
    /\ _validate_workflow_steps(steps)
    /\ enabled_platforms' = OptionsApplied("platforms", enabled_platforms)
    /\ split_duration' = OptionsApplied("split_duration", split_duration)
    /\ working_dir' = "created"
    /\ active_workflows' = active_workflows \cup {workflow_id}
    /\ status' = "running"
    /\ start_time' = TRUE
    /\ idx' = 1
    /\ pc' = "loop"
    /\ UNCHANGED <<preset_known, steps, options, video_source, waited, error,
                   current_step, end_time, video_file, subtitle_files,
                   output_files, step_results, upload_record, report, started,
                   failed, cancel_at,
                   in_flight, record_writes, uvars, ovars, rvars>>

\* the for loop takes its next step and awaits _execute_step
NextStep ==
    /\ pc = "loop"
    /\ idx <= Len(steps)
    /\ current_step' = steps[idx]
    /\ started' = Append(started, steps[idx])
    /\ waited' = 0
    /\ in_flight' = in_flight \cup {idx}
    /\ pc' = "executing"
    /\ UNCHANGED <<preset_known, steps, options, video_source, idx, status, error,
                   start_time, end_time, working_dir, video_file, subtitle_files,
                   output_files, step_results, upload_record, enabled_platforms,
                   split_duration, active_workflows, report, failed, cancel_at,
                   record_writes, uvars, ovars, rvars>>

\* the step in progress
step_name == steps[idx]

\* TRUE iff the handler of the step hands control back to the event loop while
\* its collaborator works, so that the timer of asyncio.wait_for can fire:
\* _download awaits run_in_executor for an http source; every other handler
\* calls its collaborator synchronously inside the coroutine
Suspends(step) == step = "download" /\ video_source = "http"

\* TRUE iff the handler cannot call a collaborator in this state, so that it
\* takes no time worth a clock tick: _noop sleeps 0.05 s, _download of a
\* local source only tests that the path exists, and the other handlers
\* return or raise at once when the context lacks the file they work on
Instant(step) == \A out \in execute_step(step) : ~out.called

\* the longest the model lets the step in progress last
MaxWait(step) ==
    IF Instant(step) THEN 0
    ELSE IF Suspends(step) THEN _get_step_timeout(step)
    ELSE _get_step_timeout(step) + MaxOverrun * Quantum

\* time passes while execute_workflow awaits the step
Tick ==
    /\ pc = "executing"
    /\ waited + Quantum <= MaxWait(step_name)
    /\ waited' = waited + Quantum
    /\ UNCHANGED <<preset_known, steps, options, video_source, pc, idx, status,
                   error, current_step, start_time, end_time, working_dir,
                   video_file, subtitle_files, output_files, step_results,
                   upload_record, enabled_platforms, split_duration,
                   active_workflows, report, started, failed, cancel_at,
                   in_flight, record_writes, uvars, ovars, rvars>>

\* TRUE iff the handler suspends only around collaborators that block the
\* event loop: _upload awaits asyncio.gather, and the uploads it gathers are
\* coroutines that call the uploaders synchronously
SuspendsAroundBlocking(step) == step = "upload" /\ ~Instant(step)

\* TRUE iff asyncio.wait_for gives the handler's result (or its exception)
\* at this instant: before the deadline, or whenever a handler whose
\* collaborator blocked the event loop comes back
ResultDelivered(step) == Suspends(step) => waited < _get_step_timeout(step)

\* TRUE iff asyncio.wait_for raises TimeoutError at this instant: at the
\* deadline for a handler suspended in its await, and for _upload also when the
\* blocking uploads come back after the deadline (the timer then runs before
\* the handler resumes: wait_for still gives the result up to Python 3.11, and
\* cancels the handler at its await from Python 3.12 on)
DeadlineFires(step) ==
    /\ Suspends(step) \/ SuspendsAroundBlocking(step)
    /\ waited >= _get_step_timeout(step)

\* TRUE iff this outcome of the step's handler wrote upload_results.json:
\* _upload calls save_upload_results last, so it wrote the file iff it came
\* back from parallel_upload and did not raise
Saves(step, out) == step = "upload" /\ out.called /\ ~out.raised

\* _execute_step returns the step's result: lines 125-128
StepReturns ==
    /\ pc = "executing"
    /\ ResultDelivered(step_name)
    /\ \E out \in execute_step(step_name) :
          /\ ~out.raised
          /\ ~out.called => waited = 0
          /\ video_file' = out.video_file
          /\ subtitle_files' = out.subtitle_files
          /\ output_files' = out.output_files
          /\ upload_record' = out.upload_record
          /\ record_writes' = IF Saves(step_name, out) THEN record_writes + 1
                               ELSE record_writes
    /\ step_results' = step_results \cup {step_name}
    /\ in_flight' = in_flight \ {idx}
    /\ idx' = idx + 1
    /\ pc' = "loop"
    /\ UNCHANGED <<preset_known, steps, options, video_source, waited, status,
                   error, current_step, start_time, end_time, working_dir,
                   enabled_platforms, split_duration, active_workflows, report,
                   started, failed, cancel_at,
                   uvars, ovars, rvars>>

\* the except StepError clause of the for loop: lines 130-142
HandleStepError(e) ==
    LET ctx == set_error(e, step_name)
    IN  /\ error' = ctx.error
        /\ status' = ctx.status
        /\ current_step' = ctx.current_step
        /\ failed' = failed \cup {idx}
        /\ IF _is_critical_step(step_name)
           THEN pc' = "abort" /\ idx' = idx
           ELSE pc' = "loop" /\ idx' = idx + 1
        /\ UNCHANGED <<preset_known, steps, options, video_source, waited,
                       start_time, end_time, working_dir, step_results,
                       enabled_platforms, split_duration, active_workflows,
                       report, started, cancel_at,
                   record_writes, uvars, ovars, rvars>>

\* the step's handler raises and _execute_step wraps it in a StepError
StepRaises ==
    /\ pc = "executing"
    /\ ResultDelivered(step_name)
    /\ \E out \in execute_step(step_name) :
          /\ out.raised
          /\ ~out.called => waited = 0
          /\ video_file' = out.video_file
          /\ subtitle_files' = out.subtitle_files
          /\ output_files' = out.output_files
          /\ upload_record' = out.upload_record
    /\ in_flight' = in_flight \ {idx}
    /\ HandleStepError([type |-> "StepError", step |-> step_name,
                        msg |-> "Step execution failed"])

\* asyncio.wait_for gives up on the step and _execute_step raises the
\* StepError of a timeout; the cancelled handler changes nothing more, but
\* the thread run_in_executor gave the download to is not stopped by the
\* cancellation and goes on downloading
StepTimesOut ==
    /\ pc = "executing"
    /\ DeadlineFires(step_name)
    /\ HandleStepError([type |-> "StepError", step |-> step_name,
                        msg |-> <<"Step timed out after", _get_step_timeout(step_name)>>])
    /\ in_flight' = IF Suspends(step_name) THEN in_flight ELSE in_flight \ {idx}
    /\ UNCHANGED <<video_file, subtitle_files, output_files, upload_record>>

\* the executor thread of a download the manager stopped waiting for comes to
\* its end; its result goes to a future nobody awaits
executor_thread_ends ==
    /\ \E i \in in_flight :
          /\ ~(pc = "executing" /\ idx = i)
          /\ in_flight' = in_flight \ {i}
    /\ UNCHANGED <<preset_known, steps, options, video_source, pc, idx, waited,
                   status, error, current_step, start_time, end_time,
                   working_dir, video_file, subtitle_files, output_files,
                   step_results, upload_record, enabled_platforms,
                   split_duration, active_workflows, report, started, failed,
                   cancel_at, record_writes, uvars, ovars, rvars>>

\* a variant of Abort without the finally clause
Abort_without_finally ==
    /\ pc = "abort"
    /\ LET e == [type |-> "WorkflowExecutionError", step |-> "None",
                 msg |-> "Critical step failed"]
           ctx == set_error(e, "None")
       IN  /\ error' = ctx.error
           /\ status' = ctx.status
           /\ current_step' = ctx.current_step
           /\ end_time' = TRUE
           /\ report' = FailureReport(e, ctx.current_step)
    /\ pc' = "returned"
    /\ UNCHANGED <<preset_known, steps, options, video_source, idx, waited,
                   start_time, working_dir, video_file, subtitle_files,
                   output_files, step_results, upload_record, enabled_platforms,
                   split_duration, active_workflows, started, failed, cancel_at,
                   in_flight, record_writes, uvars, ovars, rvars>>

\* the outer except clause after a critical step failed, and the finally
\* clause: lines 162-183
Abort ==
    /\ pc = "abort"
    /\ LET e == [type |-> "WorkflowExecutionError", step |-> "None",
                 msg |-> "Critical step failed"]
           ctx == set_error(e, "None")
       IN  /\ error' = ctx.error
           /\ status' = ctx.status
           /\ current_step' = ctx.current_step
           /\ end_time' = TRUE
           /\ report' = FailureReport(e, ctx.current_step)
    /\ active_workflows' = active_workflows \ {workflow_id}
    /\ pc' = "returned"
    /\ UNCHANGED <<preset_known, steps, options, video_source, idx, waited,
                   start_time, working_dir, video_file, subtitle_files,
                   output_files, step_results, upload_record, enabled_platforms,
                   split_duration, started, failed, cancel_at,
                   in_flight, record_writes, uvars, ovars, rvars>>

\* a variant that returns the success report without setting the status
Complete_keeps_status ==
    /\ pc = "loop"
    /\ idx > Len(steps)
    /\ status' = status
    /\ end_time' = TRUE
    /\ report' = SuccessReport
    /\ active_workflows' = active_workflows \ {workflow_id}
    /\ pc' = "returned"
    /\ UNCHANGED <<preset_known, steps, options, video_source, idx, waited, error,
                   current_step, start_time, working_dir, video_file,
                   subtitle_files, output_files, step_results, upload_record,
                   enabled_platforms, split_duration, started, failed, cancel_at,
                   in_flight, record_writes, uvars, ovars, rvars>>

\* the for loop is exhausted: lines 144-160, and the finally clause
Complete ==
    /\ pc = "loop"
    /\ idx > Len(steps)
    /\ status' = "completed"
    /\ end_time' = TRUE
    /\ report' = SuccessReport
    /\ active_workflows' = active_workflows \ {workflow_id}
    /\ pc' = "returned"
    /\ UNCHANGED <<preset_known, steps, options, video_source, idx, waited, error,
                   current_step, start_time, working_dir, video_file,
                   subtitle_files, output_files, step_results, upload_record,
                   enabled_platforms, split_duration, started, failed, cancel_at,
                   in_flight, record_writes, uvars, ovars, rvars>>

\* WorkflowManager.cancel_workflow(workflow_id), called by another task of the
\* event loop while execute_workflow is suspended
cancel_workflow ==
    /\ pc = "executing"
    /\ workflow_id \in active_workflows
    /\ status' = "cancelled"
    /\ cancel_at' = IF cancel_at = -1 THEN Len(started) ELSE cancel_at
    /\ UNCHANGED <<preset_known, steps, options, video_source, pc, idx, waited,
                   error, current_step, start_time, end_time, working_dir,
                   video_file, subtitle_files, output_files, step_results,
                   upload_record, enabled_platforms, split_duration,
                   active_workflows, report, started, failed,
                   in_flight, record_writes, uvars, ovars, rvars>>

Next ==
    \/ execute_workflow_rejected
    \/ execute_workflow_start
    \/ NextStep
    \/ Tick
    \/ StepReturns
    \/ StepRaises
    \/ StepTimesOut
    \/ executor_thread_ends
    \/ Abort
    \/ Complete
    \/ cancel_workflow

Spec == Init /\ [][Next]_vars

(***************************************************************************)
(* Properties.                                                             *)
(***************************************************************************)
\* the indexes of the failed steps that are download or upload
CriticalFailures == {i \in failed : steps[i] \in {"download", "upload"}}

\* the names of the steps the preset lists before position k
StepsBefore(k) == {steps[j] : j \in 1..(k - 1)}

\* C1: once a download or upload step has failed (by a step error or by a
\* timeout), no step after it is ever started, and when execute_workflow has
\* returned the status is Failed and the report has success = false, an
\* error, and partial_results naming only steps listed before the failing one.
C1_CriticalFailureAborts ==
    \A k \in CriticalFailures :
        /\ Len(started) = k
        /\ pc = "returned" =>
              /\ status = "failed"
              /\ error # NoError
              /\ report.kind = "failure"
              /\ report.success = FALSE
              /\ report.error # "None"
              /\ report.partial_results = step_results
              /\ report.partial_results \subseteq StepsBefore(k)

\* C1 witness: a run has returned after its second step, a critical one,
\* failed; the first step's result is in the partial results and the third
\* step was never started.
C1_Witness ==
    /\ pc = "returned"
    /\ CriticalFailures = {2}
    /\ Len(steps) = 3
    /\ Len(started) = 2
    /\ report.partial_results = {steps[1]}
    /\ report.success = FALSE

\* TRUE iff s is an initial part of t
IsPrefix(s, t) == Len(s) <= Len(t) /\ \A i \in 1..Len(s) : s[i] = t[i]

\* C2: the steps are started in the order of the preset, and a run in which
\* some step failed but neither download nor upload did has, when
\* execute_workflow returns, started every step of the preset, the status
\* Completed and a report with success = true.
C2_NonCriticalFailureContinues ==
    /\ IsPrefix(started, steps)
    /\ (pc = "returned" /\ failed # {} /\ CriticalFailures = {}) =>
          /\ started = steps
          /\ status = "completed"
          /\ report.kind = "success"
          /\ report.success = TRUE

\* C2 witness: a run has returned Completed although its first step failed,
\* and steps were started after the failed one.
C2_Witness ==
    /\ pc = "returned"
    /\ 1 \in failed
    /\ CriticalFailures = {}
    /\ Len(started) = 3
    /\ status = "completed"
    /\ report.success = TRUE

\* C3: every step whose failure was caught has an entry in step_results.
C3_FailedStepRecorded ==
    \A i \in failed : steps[i] \in step_results

\* the status changes the state machine allows
AllowedStatusChange ==
    {<<"pending", "running">>, <<"running", "completed">>,
     <<"running", "failed">>, <<"running", "cancelled">>}

\* C4: every change of the status is Pending->Running or
\* Running->{Completed, Failed, Cancelled}; in particular a status of
\* Completed, Failed or Cancelled never changes again.
C4_StatusMonotonic ==
    [][status' # status => <<status, status'>> \in AllowedStatusChange]_vars

\* C5: the status is not Failed in a state in which the run is executing a
\* step or is about to start the next one.
C5_RunningWhileStepsRemain ==
    (pc = "executing" \/ (pc = "loop" /\ idx <= Len(steps))) => status # "failed"

\* C6: after cancel_workflow no further step is started, and the run ends
\* with status Cancelled.
C6_CancelStopsRun ==
    cancel_at # -1 =>
        /\ Len(started) = cancel_at
        /\ pc = "returned" => status = "cancelled"

\* the validation the specification describes: every step is known and every
\* dependency of a step occurs earlier in the list
DependenciesEarlier(ss) ==
    /\ \A i \in 1..Len(ss) : ss[i] \in WorkflowStep
    /\ \A i \in 1..Len(ss) :
          ss[i] \in DOMAIN step_dependencies =>
              \A dependency \in step_dependencies[ss[i]] :
                  \E j \in 1..(i - 1) : ss[j] = dependency

\* C7: the step list of a known preset is accepted (the run gets past
\* _prepare_workflow) if and only if every step is known and every dependency
\* occurs earlier than its dependent; otherwise the call fails with a
\* validation error.
C7_ValidationIffDependenciesEarlier ==
    (preset_known /\ pc # "idle") =>
        /\ DependenciesEarlier(steps) <=> start_time
        /\ ~DependenciesEarlier(steps) <=> error.type = "WorkflowValidationError"

\* C8: a step with a dependency is started only after its dependency was
\* started earlier in the same run.
C8_DependencyExecutedFirst ==
    \A k \in 1..Len(started) :
        started[k] \in DOMAIN step_dependencies =>
            \A dependency \in step_dependencies[started[k]] :
                \E j \in 1..(k - 1) : started[j] = dependency

\* C9: a call that failed validation has started no step, created no working
\* directory and left the configuration as it was.
C9_RejectionHasNoEffect ==
    error.type = "WorkflowValidationError" =>
        /\ started = <<>>
        /\ working_dir = "None"
        /\ enabled_platforms = DefaultConfig.enabled_platforms
        /\ split_duration = DefaultConfig.split_duration

\* C10: execute_workflow never waits on a step for longer than the step's
\* timeout.
C10_WaitBoundedByTimeout ==
    pc = "executing" => waited <= _get_step_timeout(step_name)

\* C11: the steps of a run are started in the order the preset lists them, and
\* a step is started only after the previous one has returned, failed or timed
\* out: at no instant do the handlers or collaborators of two steps work.
C11_OneStepAtATime ==
    /\ IsPrefix(started, steps)
    /\ Cardinality(in_flight) <= 1
    /\ pc = "executing" => (in_flight = {idx} /\ Len(started) = idx)

\* the third step is in progress alone, after the first returned and the
\* second failed
C11_Witness ==
    /\ pc = "executing"
    /\ idx = 3
    /\ in_flight = {3}
    /\ steps[1] \in step_results
    /\ failed = {2}

\* the manager gave up a download whose thread is still downloading, and
\* started no further step
C11_WitnessAbandonedDownload ==
    /\ in_flight = {1}
    /\ failed = {1}
    /\ pc = "returned"
    /\ Len(started) = 1

(***************************************************************************)
(* parallel_upload: one call of the coordinator, followed task by task.    *)
(* asyncio.gather wraps each _wrapped(p) in a task; the event loop runs    *)
(* the ready tasks in the order of their creation.  upload_to_platform is  *)
(* a coroutine without an await: it calls the uploader synchronously, so   *)
(* while an upload is in progress the event loop runs no other task.       *)
(***************************************************************************)
\* most destinations of one call
MaxPlatforms == 3
\* largest concurrency limit of one call
MaxLimit == 2
\* the default of the parameter limit, which _upload passes as well
DefaultLimit == 2

\* the destinations upload_to_platform tells apart: two with an uploader and
\* one without
Platforms == {"tiktok", "telegram", "youtube"}

\* what the uploader of a destination does when called: it reports success,
\* reports failure, or raises
Behaviours == {"ok", "refused", "raises"}

\* a variant without the try/except: the uploader's exception leaves the
\* coroutine
upload_to_platform_uncaught(platform, b) ==
    IF platform \in {"tiktok", "telegram"}
    THEN [raised |-> b = "raises", platform |-> platform, success |-> b = "ok",
          error |-> "None"]
    ELSE [raised |-> FALSE, platform |-> platform, success |-> FALSE,
          error |-> "not_implemented"]

\* upload_to_platform: the dict it returns (error "None": no such key)
upload_to_platform(platform, b) ==
    IF platform \in {"tiktok", "telegram"}
    THEN [raised |-> FALSE, platform |-> platform, success |-> b = "ok",
          error |-> IF b = "raises" THEN "exception" ELSE "None"]
    ELSE [raised |-> FALSE, platform |-> platform, success |-> FALSE,
          error |-> "not_implemented"]

\* a variant of acquire that takes a slot whatever the value
can_acquire_always(value) == TRUE

\* asyncio.Semaphore.acquire goes on without waiting iff the value is positive
can_acquire(value) == value > 0

\* a variant in which only a successful upload gives its slot back
release_on_success(value, out) == IF out.success THEN value + 1 ELSE value

\* the exit of "async with sem": Semaphore.release, whatever the upload gave
release(value, out) == value + 1

\* a variant that lists the outcomes from the last task to the first
gather_reversed(outs) == [i \in 1..Len(outs) |-> outs[Len(outs) + 1 - i]]

\* asyncio.gather: the results of the tasks in the order of the awaitables
gather(outs) == [i \in 1..Len(outs) |-> outs[i]]

\* the outcome slot of a task that has not finished
NoOutcome == [raised |-> FALSE, platform |-> "None", success |-> FALSE,
              error |-> "None"]

\* no call of execute_workflow is followed
NoRun ==
    /\ preset_known = FALSE
    /\ steps = <<>>
    /\ options = [k \in {} |-> 0]
    /\ video_source = "local"
    /\ pc = "idle"
    /\ idx = 0
    /\ waited = 0
    /\ status = "pending"
    /\ error = NoError
    /\ current_step = "None"
    /\ start_time = FALSE
    /\ end_time = FALSE
    /\ working_dir = "None"
    /\ video_file = NoFile
    /\ subtitle_files = <<>>
    /\ output_files = <<>>
    /\ step_results = {}
    /\ upload_record = <<>>
    /\ enabled_platforms = DefaultConfig.enabled_platforms
    /\ split_duration = DefaultConfig.split_duration
    /\ active_workflows = {}
    /\ report = NoReport
    /\ started = <<>>
    /\ failed = {}
    /\ cancel_at = -1
    /\ in_flight = {}
    /\ record_writes = 0

\* parallel_upload up to the await of asyncio.gather: lines 39-46
InitUpload ==
    /\ NoRun
    /\ NoOthers
    /\ NoRetry
    /\ up_platforms \in SeqsUpTo(Platforms, MaxPlatforms)
    /\ up_limit \in 0..MaxLimit
    /\ behaviour \in [1..Len(up_platforms) -> Behaviours]
    /\ sem = up_limit
    /\ tasks = [i \in 1..Len(up_platforms) |-> "created"]
    /\ outcomes = [i \in 1..Len(up_platforms) |-> NoOutcome]
    /\ completed = <<>>
    /\ coordinator = [at |-> "gathering", results |-> <<>>]

\* the destinations whose upload is in progress
InFlight == {i \in 1..Len(up_platforms) : tasks[i] = "uploading"}

\* the event loop runs task i: _wrapped(p) enters "async with sem" and, with
\* a slot, calls upload_to_platform; without one it waits for a release
_wrapped(i) ==
    /\ i \in 1..Len(up_platforms)
    /\ InFlight = {}
    /\ \A j \in 1..(i - 1) : tasks[j] # "created"
    /\ IF can_acquire(sem)
       THEN /\ tasks[i] \in {"created", "waiting"}
            /\ sem' = sem - 1
            /\ tasks' = [tasks EXCEPT ![i] = "uploading"]
       ELSE /\ tasks[i] = "created"
            /\ sem' = sem
            /\ tasks' = [tasks EXCEPT ![i] = "waiting"]
    /\ UNCHANGED <<up_platforms, up_limit, behaviour, outcomes, completed,
                   coordinator, wvars, ovars, rvars>>

\* the upload of task i comes to its end: upload_to_platform returns, the
\* slot is released and the task is done; an exception that left the task
\* would leave asyncio.gather and parallel_upload as well
upload_ends(i) ==
    /\ i \in InFlight
    /\ LET out == upload_to_platform(up_platforms[i], behaviour[i])
       IN  /\ outcomes' = [outcomes EXCEPT ![i] = out]
           /\ sem' = release(sem, out)
           /\ coordinator' = IF out.raised /\ coordinator.at = "gathering"
                             THEN [at |-> "raised", results |-> <<>>]
                             ELSE coordinator
    /\ tasks' = [tasks EXCEPT ![i] = "done"]
    /\ completed' = Append(completed, i)
    /\ UNCHANGED <<up_platforms, up_limit, behaviour, wvars, ovars, rvars>>

\* every task is done: asyncio.gather gives the list parallel_upload returns
gather_returns ==
    /\ coordinator.at = "gathering"
    /\ \A i \in 1..Len(up_platforms) : tasks[i] = "done"
    /\ coordinator' =
          [at |-> "returned",
           results |-> gather([i \in 1..Len(outcomes) |->
                                 [platform |-> outcomes[i].platform,
                                  success |-> outcomes[i].success,
                                  error |-> outcomes[i].error]])]
    /\ UNCHANGED <<up_platforms, up_limit, behaviour, sem, tasks, outcomes,
                   completed, wvars, ovars, rvars>>

NextUpload ==
    \/ \E i \in 1..MaxPlatforms : _wrapped(i)
    \/ \E i \in 1..MaxPlatforms : upload_ends(i)
    \/ gather_returns

SpecUpload == InitUpload /\ [][NextUpload]_vars

\* the event loop runs every ready task, every upload that started comes to
\* an end, and the coroutine awaiting asyncio.gather is resumed
SpecUploadFair ==
    /\ SpecUpload
    /\ \A i \in 1..MaxPlatforms : WF_vars(_wrapped(i)) /\ WF_vars(upload_ends(i))
    /\ WF_vars(gather_returns)

\* C12: during parallel_upload with concurrency limit L, at every instant at
\* most L uploads are in flight, whatever the number of destinations.
C12_AtMostLimitInFlight == Cardinality(InFlight) <= up_limit

\* an upload is in flight under the default limit while the two other
\* destinations have not started
C12_Witness ==
    /\ up_limit = DefaultLimit
    /\ Len(up_platforms) = 3
    /\ InFlight = {1}
    /\ tasks[2] = "created"
    /\ tasks[3] = "created"

\* C13: the list parallel_upload returns has one outcome per destination, and
\* its i-th outcome is the outcome of the upload to the i-th destination.
C13_ResultsInInputOrder ==
    coordinator.at = "returned" =>
        /\ Len(coordinator.results) = Len(up_platforms)
        /\ \A i \in 1..Len(up_platforms) :
              /\ coordinator.results[i].platform = up_platforms[i]
              /\ coordinator.results[i].success = outcomes[i].success
              /\ coordinator.results[i].error = outcomes[i].error

\* three different destinations, of which only the second succeeded
C13_Witness ==
    /\ coordinator.at = "returned"
    /\ up_platforms = <<"youtube", "telegram", "tiktok">>
    /\ ~coordinator.results[1].success
    /\ coordinator.results[2].success
    /\ ~coordinator.results[3].success

\* the destinations that have an uploader
Implemented == {"tiktok", "telegram"}

\* C14: an exception raised by one destination's upload becomes that
\* destination's outcome {success: false, error} and does not leave
\* parallel_upload; every other destination's upload runs to completion and
\* its outcome depends on its own uploader only.
C14_FailureIsolated ==
    /\ coordinator.at # "raised"
    /\ \A i \in 1..Len(up_platforms) :
          tasks[i] = "done" =>
              /\ ~outcomes[i].raised
              /\ outcomes[i].platform = up_platforms[i]
              /\ outcomes[i].success =
                    (up_platforms[i] \in Implemented /\ behaviour[i] = "ok")
              /\ (up_platforms[i] \in Implemented /\ behaviour[i] = "raises")
                    => outcomes[i].error = "exception"
    /\ coordinator.at = "returned" =>
          \A i \in 1..Len(up_platforms) : i \in Range(completed)

\* the first destination's uploader raised; the two others were uploaded to
\* afterwards, one with success, and the call returned
C14_Witness ==
    /\ coordinator.at = "returned"
    /\ Len(up_platforms) = 3
    /\ up_platforms[1] \in Implemented
    /\ behaviour[1] = "raises"
    /\ coordinator.results[1].error = "exception"
    /\ coordinator.results[2].success
    /\ ~coordinator.results[3].success

\* C15: parallel_upload never returns while an upload of one of its
\* destinations is in flight or has not started, and with a limit of at least
\* 1 it eventually returns when every upload comes to an end, failed or not.
C15_ReturnsWhenAllDone ==
    /\ [](coordinator.at = "returned" =>
            \A i \in 1..Len(up_platforms) : tasks[i] = "done")
    /\ (coordinator.at = "gathering" /\ up_limit >= 1)
          ~> (coordinator.at = "returned")

\* with one slot, the call returned although the first two of three uploads
\* failed
C15_Witness ==
    /\ coordinator.at = "returned"
    /\ up_limit = 1
    /\ Len(up_platforms) = 3
    /\ ~coordinator.results[1].success
    /\ coordinator.results[2].error = "exception"
    /\ coordinator.results[3].success

\* the destinations the upload step of this run uploads to
RequestedPlatforms ==
    IF "platforms" \in DOMAIN options THEN options["platforms"]
    ELSE enabled_platforms

\* TRUE iff the results list holds the outcome of a failed destination
HasFailedDestination(results) ==
    \E i \in 1..Len(results) : ~results[i].success

C17_RecordWrittenOnce ==
    \A k \in 1..Len(started) :
        (started[k] = "upload" /\ (k < idx \/ pc \in {"abort", "returned"})) =>
            /\ record_writes = 1
            /\ Len(upload_record) = Len(RequestedPlatforms)
            /\ \A i \in 1..Len(upload_record) :
                  upload_record[i].platform = RequestedPlatforms[i]

\* C18: every call of execute_workflow ends by returning a report, and when it
\* has returned the run is not listed in active_workflows.
C18_AlwaysReturnsReport ==
    /\ pc = "returned" =>
          /\ report.kind \in {"success", "failure"}
          /\ report.success <=> report.kind = "success"
          /\ workflow_id \notin active_workflows
    /\ pc # "returned" => report = NoReport
    /\ (pc # "returned") => ENABLED Next

\* a run that was cancelled and then failed at a step has returned its report
C18_Witness ==
    /\ pc = "returned"
    /\ cancel_at # -1
    /\ CriticalFailures # {}
    /\ report.kind = "failure"
    /\ active_workflows = {}

\* C19: the report of a failed run holds every entry appended to the
\* context's output_files before the failure.
C19_FailureReportKeepsArtifacts ==
    report.kind = "failure" =>
        \A i \in 1..Len(output_files) :
            output_files[i].path \in Range(report.output_files)

\* C20: the report of a run aborted by a step failure names, as failed_step,
\* the step whose failure aborted the run, whether its collaborator raised or
\* the step timed out.
C20_FailedStepNamed ==
    (pc = "returned" /\ CriticalFailures # {}) =>
        \A k \in CriticalFailures :
            /\ k = Len(started)
            /\ report.failed_step = steps[k]

\* the second step, a download over http, timed out (its thread still works)
\* and the report names it
C20_Witness ==
    /\ pc = "returned"
    /\ CriticalFailures = {2}
    /\ in_flight = {2}
    /\ report.failed_step = "download"

\* C21: the context's error is set only by the first unrecoverable failure (a
\* critical step failure or an uncaught error): it stays unset after a
\* non-critical step failure, and a run that ended Completed has no error.
C21_ErrorOnlyWhenUnrecoverable ==
    /\ error # NoError =>
          (CriticalFailures # {} \/ error.type = "WorkflowValidationError")
    /\ status = "completed" => error = NoError

(***************************************************************************)
(* Runs of given presets, alone and beside a second run of the same        *)
(* WorkflowManager.  The second run is another task of the event loop: it  *)
(* is followed only where it touches what the two runs share, the          *)
(* process-wide configuration and active_workflows, and it runs only while *)
(* the first run is suspended in an await that hands control to the loop.  *)
(***************************************************************************)
\* the step lists of the presets the runs are followed for
ScenarioPresets ==
    {<<"download", "upload">>,
     <<"download", "split_final", "upload">>,
     <<"download", "subtitle", "translate_subtitle", "embed_subtitle">>}

\* the context and the manager before execute_workflow is called
RunNotStarted ==
    /\ pc = "idle"
    /\ idx = 0
    /\ waited = 0
    /\ status = "pending"
    /\ error = NoError
    /\ current_step = "None"
    /\ start_time = FALSE
    /\ end_time = FALSE
    /\ working_dir = "None"
    /\ video_file = NoFile
    /\ subtitle_files = <<>>
    /\ output_files = <<>>
    /\ step_results = {}
    /\ upload_record = <<>>
    /\ enabled_platforms = DefaultConfig.enabled_platforms
    /\ split_duration = DefaultConfig.split_duration
    /\ active_workflows = {}
    /\ report = NoReport
    /\ started = <<>>
    /\ failed = {}
    /\ cancel_at = -1
    /\ in_flight = {}
    /\ record_writes = 0

\* execute_workflow is about to be called with one of the presets
ScenarioInputs ==
    /\ preset_known \in BOOLEAN
    /\ steps \in IF preset_known THEN ScenarioPresets ELSE {<<>>}
    /\ options \in OptionDicts
    /\ video_source \in SourceKinds

InitScenario ==
    /\ ScenarioInputs
    /\ RunNotStarted
    /\ NoUpload
    /\ NoRetry
    /\ NoOthers

SpecScenario == InitScenario /\ [][Next]_vars

\* the workflow id of a second run: the id is the clock time in whole
\* seconds, so it is the first run's id when both start in the same second
OtherIds == {workflow_id, "workflow_2"}

InitTwoRuns ==
    /\ ScenarioInputs
    /\ RunNotStarted
    /\ NoUpload
    /\ NoRetry
    /\ other_options \in OptionDicts
    /\ other_id \in OtherIds
    /\ other_pc = "idle"
    /\ cli = [command |-> "None", at |-> "absent", exit_code |-> -1]

\* TRUE iff the first run is not running or is suspended in an await during
\* which the event loop runs other tasks
AtAwait ==
    \/ pc \in {"idle", "returned"}
    \/ pc = "executing" /\ Suspends(step_name)

\* _prepare_workflow of the second run applies its options
OtherOptionsApplied(key, current) ==
    IF key \in DOMAIN other_options THEN other_options[key] ELSE current

\* the second execute_workflow, with a valid preset, up to its first await
other_run_starts ==
    /\ other_pc = "idle"
    /\ AtAwait
    /\ enabled_platforms' = OtherOptionsApplied("platforms", enabled_platforms)
    /\ split_duration' = OtherOptionsApplied("split_duration", split_duration)
    /\ active_workflows' = active_workflows \cup {other_id}
    /\ other_pc' = "running"
    /\ UNCHANGED <<preset_known, steps, options, video_source, pc, idx, waited,
                   status, error, current_step, start_time, end_time,
                   working_dir, video_file, subtitle_files, output_files,
                   step_results, upload_record, report, started, failed,
                   cancel_at, in_flight, record_writes, uvars, other_options,
                   other_id, cli, rvars>>

\* the second execute_workflow returns: its finally clause
other_run_returns ==
    /\ other_pc = "running"
    /\ AtAwait
    /\ active_workflows' = active_workflows \ {other_id}
    /\ other_pc' = "returned"
    /\ UNCHANGED <<preset_known, steps, options, video_source, pc, idx, waited,
                   status, error, current_step, start_time, end_time,
                   working_dir, video_file, subtitle_files, output_files,
                   step_results, upload_record, enabled_platforms,
                   split_duration, report, started, failed, cancel_at,
                   in_flight, record_writes, uvars, other_options, other_id,
                   cli, rvars>>

NextTwoRuns ==
    \/ Next
    \/ other_run_starts
    \/ other_run_returns

SpecTwoRuns == InitTwoRuns /\ [][NextTwoRuns]_vars

\* the destinations and the split duration a run gets from its own options
\* and the configuration as it was before any run
OwnPlatforms ==
    IF "platforms" \in DOMAIN options THEN options["platforms"]
    ELSE DefaultConfig.enabled_platforms

OwnSplitDuration ==
    IF "split_duration" \in DOMAIN options THEN options["split_duration"]
    ELSE DefaultConfig.split_duration

\* C22: two concurrent runs share no mutable state: the destinations and the
\* split duration the steps of a run use come from that run's own options and
\* are not changed by the options of another run.
C22_RunsShareNoState ==
    pc = "executing" =>
        /\ RequestedPlatforms = OwnPlatforms
        /\ split_duration = OwnSplitDuration

\* C29: two workflows executing at the same time on one manager are tracked
\* in active_workflows under distinct workflow ids, and one of them finishing
\* does not remove the entry of the other.
C29_DistinctTrackedIds ==
    /\ (pc = "executing" /\ other_pc = "running") =>
          /\ other_id # workflow_id
          /\ {workflow_id, other_id} \subseteq active_workflows
    /\ pc = "executing" => workflow_id \in active_workflows

\* C23: in a run in which every step succeeds, each step of the preset is
\* executed once and in order, the final status is Completed, the report has
\* success = true, and the report lists output files whenever a step appended
\* one.
C23_AllStepsSucceed ==
    (pc = "returned" /\ start_time /\ failed = {}) =>
        /\ started = steps
        /\ step_results = Range(steps)
        /\ status = "completed"
        /\ report.kind = "success"
        /\ report.success
        /\ Len(report.output_files) = Len(output_files)
        /\ output_files # <<>> => report.output_files # <<>>

\* a run of three steps that all succeeded and appended output files
C23_Witness ==
    /\ pc = "returned"
    /\ Len(steps) = 3
    /\ failed = {}
    /\ started = steps
    /\ Len(output_files) >= 2
    /\ report.success

\* C24: a run of [download, upload] on an existing local file with the
\* destinations [telegram] returns success = true with at least one output
\* file, and its results record holds one entry, for telegram.
C24_MinimalLocalRun ==
    (/\ steps = <<"download", "upload">>
     /\ video_source = "local"
     /\ "platforms" \in DOMAIN options
     /\ pc = "returned"
     /\ failed = {}) =>
        /\ report.success
        /\ Len(report.output_files) >= 1
        /\ Len(upload_record) = 1
        /\ upload_record[1].platform = "telegram"

\* the preset of the subtitle scenario
SubtitlePreset ==
    <<"download", "subtitle", "translate_subtitle", "embed_subtitle">>

\* C25: in a run of [download, subtitle, translate_subtitle, embed_subtitle]
\* whose subtitle step fails, translate_subtitle and embed_subtitle complete
\* without error and leave the video file, the subtitle list and the output
\* files as they were, and the report has success = true.
C25_SubtitleFailureIsGraceful ==
    /\ []((steps = SubtitlePreset /\ 2 \in failed) =>
             /\ failed = {2}
             /\ subtitle_files = <<>>
             /\ pc = "returned" => (report.success /\ started = steps))
    /\ [][(/\ steps = SubtitlePreset
           /\ 2 \in failed
           /\ pc = "executing") =>
             /\ video_file' = video_file
             /\ subtitle_files' = subtitle_files
             /\ output_files' = output_files]_vars

\* the subtitle step failed after the download, the two later steps ran, and
\* the run returned success
C25_Witness ==
    /\ steps = SubtitlePreset
    /\ failed = {2}
    /\ step_results = {"download", "translate_subtitle", "embed_subtitle"}
    /\ pc = "returned"
    /\ report.success

\* C27: the working directory is created and set in the context before the
\* first step starts: no step executes with an unset working directory.
C27_WorkingDirBeforeSteps ==
    (started # <<>> \/ pc \in {"loop", "executing", "abort"}) =>
        working_dir = "created"

\* the first step is in progress in the created working directory
C27_Witness ==
    /\ pc = "executing"
    /\ idx = 1
    /\ working_dir = "created"

\* C28: when execute_workflow has returned, the report's success flag is true
\* exactly when the status is Completed and false exactly when it is Failed,
\* also for a run cancel_workflow was called on.
C28_SuccessMatchesStatus ==
    pc = "returned" =>
        /\ report.success <=> status = "completed"
        /\ ~report.success <=> status = "failed"

\* a run that was cancelled while executing returned success with the status
\* Completed
C28_Witness ==
    /\ pc = "returned"
    /\ cancel_at # -1
    /\ report.success
    /\ status = "completed"

\* C30: whenever the status is Failed or Completed, the end timestamp is set.
C30_TerminalStatusHasEndTime ==
    (status \in {"failed", "completed"} /\ pc \in {"executing", "returned"}) =>
        end_time

(***************************************************************************)
(* The command line: cli.commands.main in command mode and in interactive  *)
(* mode.  Only the interactive mode reaches WorkflowManager.               *)
(***************************************************************************)
\* the commands handle_command has a handler for
CommandHandlers ==
    {"download", "process", "upload", "workflow", "config", "status"}

\* args.command: a handled command, another one, or none (interactive mode)
Commands == CommandHandlers \cup {"convert", "None"}

InitCli ==
    /\ ScenarioInputs
    /\ RunNotStarted
    /\ NoUpload
    /\ NoRetry
    /\ other_options = [k \in {} |-> 0]
    /\ other_id = "None"
    /\ other_pc = "absent"
    /\ cli \in {[command |-> c, at |-> "start", exit_code |-> -1] : c \in Commands}

\* the exit code of the process after main in command mode: handle_command
\* calls sys.exit(1) for a command without handler; every handler, the one of
\* workflow included, prints a line and returns, and so does main
handle_command(command) == IF command \in CommandHandlers THEN 0 ELSE 1

\* main with args.command: handle_command, then the process exits; the
\* handlers call nothing of the workflow engine
main ==
    /\ cli.at = "start"
    /\ cli.command # "None"
    /\ cli' = [cli EXCEPT !.at = "exited",
                          !.exit_code = handle_command(cli.command)]
    /\ UNCHANGED <<wvars, uvars, other_options, other_id, other_pc, rvars>>

\* main without args.command enters interactive_mode
interactive_mode ==
    /\ cli.at = "start"
    /\ cli.command = "None"
    /\ cli' = [cli EXCEPT !.at = "interactive"]
    /\ UNCHANGED <<wvars, uvars, other_options, other_id, other_pc, rvars>>

\* interactive_workflow: execute_workflow of the command line runs
\* WorkflowManager.execute_workflow under asyncio.run
interactive_workflow ==
    /\ cli.at = "interactive"
    /\ Next

\* the user leaves the interactive mode and main returns
interactive_exit ==
    /\ cli.at = "interactive"
    /\ pc \in {"idle", "returned"}
    /\ cli' = [cli EXCEPT !.at = "exited", !.exit_code = 0]
    /\ UNCHANGED <<wvars, uvars, other_options, other_id, other_pc, rvars>>

NextCli ==
    \/ main
    \/ interactive_mode
    \/ interactive_workflow
    \/ interactive_exit

SpecCli == InitCli /\ [][NextCli]_vars

\* C26: the command-line workflow command runs the workflow for the given
\* preset and source, and exits with code 0 when the run ended Completed and
\* with another code when it ended Failed.
C26_WorkflowCommandExitCode ==
    (cli.at = "exited" /\ cli.command = "workflow") =>
        /\ pc = "returned"
        /\ cli.exit_code = 0 <=> status = "completed"
        /\ cli.exit_code # 0 <=> status = "failed"

\* C31: the upload step calls the coordinator only when the context has a
\* current video file; without one it returns successfully, gives no
\* destination outcome and writes no results record, so that the run can
\* report success with nothing distributed.
C31_UploadNeedsVideo ==
    /\ (pc = "executing" /\ step_name = "upload") =>
          /\ video_file = NoFile => execute_step(step_name) = {ReturnsAtOnce}
          /\ video_file # NoFile =>
                \A out \in execute_step(step_name) : out.called
    /\ record_writes > 0 => video_file # NoFile
    /\ (steps = <<"upload">> /\ pc = "returned") =>
          /\ report.success
          /\ record_writes = 0
          /\ upload_record = <<>>

\* a run whose only step is upload returned success and wrote no record
C31_Witness ==
    /\ steps = <<"upload">>
    /\ pc = "returned"
    /\ step_results = {"upload"}
    /\ report.success
    /\ record_writes = 0

\* TRUE iff the outcome of a handler leaves the context's files as they are
LeavesFiles(out) ==
    /\ out.video_file = video_file
    /\ out.subtitle_files = subtitle_files
    /\ out.output_files = output_files

\* TRUE iff the outcome reassigns the video file and appends it, as a
\* processed file, to the output files
Transforms(out) ==
    /\ out.video_file # video_file
    /\ out.subtitle_files = subtitle_files
    /\ out.output_files =
          Append(output_files, [path |-> out.video_file, type |-> "processed"])

\* C32: embed_subtitle and watermark reassign the current video file and
\* append an output file only when their collaborator reports success; when
\* it reports failure the step still succeeds and leaves the video file and
\* the output files unchanged.
C32_TransformOnlyOnSuccess ==
    (pc = "executing" /\ step_name \in {"embed_subtitle", "watermark"}) =>
        /\ \A out \in execute_step(step_name) :
              /\ ~out.raised => (LeavesFiles(out) \/ Transforms(out))
              /\ out.raised => LeavesFiles(out)
        /\ ~Instant(step_name) => CollaboratorDeclines \in execute_step(step_name)

\* the watermark collaborator reported failure after a download: the step is
\* recorded as done, the video file is the downloaded one and the output
\* files hold the download only
C32_Witness ==
    /\ steps = <<"download", "watermark">>
    /\ pc = "returned"
    /\ report.success
    /\ step_results = {"download", "watermark"}
    /\ video_file = <<"downloaded">>
    /\ Len(output_files) = 1

\* the timeouts the specification gives the steps
ExpectedTimeout(step) ==
    IF step = "download" THEN 3600
    ELSE IF step \in {"subtitle", "upload"} THEN 1800
    ELSE 900

C35_FilesOnlyGrow ==
    [][/\ IsPrefix(output_files, output_files')
       /\ IsPrefix(subtitle_files, subtitle_files')]_vars

\* two steps appended output files and two appended subtitle files
C35_Witness ==
    /\ Len(subtitle_files) = 2
    /\ Len(output_files) >= 1
    /\ pc = "returned"

(***************************************************************************)
(* core.utils.retry: retry_sync and retry_async.  Both run the same loop,  *)
(*     for attempt in range(1, retries + 1):                               *)
(*         try: return func()                                              *)
(*         except exceptions: if attempt == retries: raise; sleep(delay)   *)
(* retry_sync sleeps with time.sleep and retry_async with asyncio.sleep.   *)
(* A call of the operation either returns, and then its value is the       *)
(* number of the call, or raises an exception of some class.               *)
(***************************************************************************)
MaxRetries == 3

DefaultDelay == 2

\* the classes of the exceptions the operation raises
Raised == {"ValueError", "TimeoutError", "OSError", "KeyboardInterrupt"}

\* the classes a caller lists in the argument exceptions
Listed == {"Exception", "OSError", "ValueError"}

\* the base classes of a class, itself included
Bases(class) ==
    CASE class = "ValueError" -> {"ValueError", "Exception", "BaseException"}
      [] class = "OSError" -> {"OSError", "Exception", "BaseException"}
      [] class = "TimeoutError" ->
            {"TimeoutError", "OSError", "Exception", "BaseException"}
      [] class = "KeyboardInterrupt" -> {"KeyboardInterrupt", "BaseException"}
      [] OTHER -> {class}

\* 'except exceptions': the clause takes an exception of a listed class or of
\* a subclass of one
Caught(class, listed) == Bases(class) \cap listed # {}

\* a variant of the test for the last attempt that is never true
last_attempt_never(n, limit) == FALSE

\* 'if attempt == retries'
last_attempt(n, limit) == n = limit

\* the call of retry_sync or retry_async has been entered
InitRetry ==
    /\ NoRun
    /\ NoUpload
    /\ NoOthers
    /\ retry_func \in {"retry_sync", "retry_async"}
    /\ retries \in 0..MaxRetries
    /\ delay \in {0, DefaultDelay}
    /\ exceptions \in SUBSET Listed
    /\ attempt = 0
    /\ retry_pc = "for"
    /\ calls = <<>>
    /\ sleeps = <<>>
    /\ retry_result = [kind |-> "none", value |-> "None"]

\* 'for attempt in range(1, retries + 1)': the next attempt begins
for_next ==
    /\ retry_pc = "for"
    /\ attempt < retries
    /\ attempt' = attempt + 1
    /\ retry_pc' = "try"
    /\ UNCHANGED <<retry_func, retries, delay, exceptions, calls, sleeps,
                   retry_result, wvars, uvars, ovars>>

\* the range is exhausted: the function ends without a return statement
for_exhausted ==
    /\ retry_pc = "for"
    /\ attempt >= retries
    /\ retry_pc' = "returned"
    /\ retry_result' = [kind |-> "returned", value |-> "None"]
    /\ UNCHANGED <<retry_func, retries, delay, exceptions, attempt, calls,
                   sleeps, wvars, uvars, ovars>>

\* 'return func()' / 'return await coro_func(*args, **kwargs)': the call
\* returns
call_returns ==
    /\ retry_pc = "try"
    /\ calls' = Append(calls, "ok")
    /\ retry_pc' = "returned"
    /\ retry_result' = [kind |-> "returned", value |-> Len(calls) + 1]
    /\ UNCHANGED <<retry_func, retries, delay, exceptions, attempt, sleeps,
                   wvars, uvars, ovars>>

\* the call raises an exception the except clause does not take
call_raises_unlisted ==
    /\ retry_pc = "try"
    /\ \E class \in Raised :
          /\ ~Caught(class, exceptions)
          /\ calls' = Append(calls, class)
          /\ retry_result' = [kind |-> "raised", value |-> <<class, Len(calls) + 1>>]
    /\ retry_pc' = "raised"
    /\ UNCHANGED <<retry_func, retries, delay, exceptions, attempt, sleeps,
                   wvars, uvars, ovars>>

\* the call raises an exception the except clause takes: it is raised again
\* on the last attempt, and otherwise the sleep begins
call_raises_listed ==
    /\ retry_pc = "try"
    /\ \E class \in Raised :
          /\ Caught(class, exceptions)
          /\ calls' = Append(calls, class)
          /\ IF last_attempt(attempt, retries)
             THEN /\ retry_pc' = "raised"
                  /\ retry_result' =
                        [kind |-> "raised", value |-> <<class, Len(calls) + 1>>]
             ELSE /\ retry_pc' = "sleep"
                  /\ UNCHANGED retry_result
    /\ UNCHANGED <<retry_func, retries, delay, exceptions, attempt, sleeps,
                   wvars, uvars, ovars>>

\* 'time.sleep(delay)' / 'await asyncio.sleep(delay)' ends
sleep ==
    /\ retry_pc = "sleep"
    /\ sleeps' = Append(sleeps, delay)
    /\ retry_pc' = "for"
    /\ UNCHANGED <<retry_func, retries, delay, exceptions, attempt, calls,
                   retry_result, wvars, uvars, ovars>>

NextRetry ==
    \/ for_next
    \/ for_exhausted
    \/ call_returns
    \/ call_raises_unlisted
    \/ call_raises_listed
    \/ sleep

SpecRetry == InitRetry /\ [][NextRetry]_vars

\* TRUE iff the call of retry_sync or retry_async has ended
RetryEnded == retry_pc \in {"returned", "raised"}

\* C33: with retries >= 1, retry_sync and retry_async call the operation at
\* most retries times, return the result of the first call that succeeds
\* without calling again, sleep for delay between two attempts only and never
\* after the last one, raise the exception of the last call when all retries
\* calls raised a listed exception, and let an exception that is not listed
\* pass at once without a retry.
C33_RetryContract ==
    (retry_pc # "absent" /\ retries >= 1) =>
        /\ Len(calls) <= retries
        /\ \A i \in 1..Len(calls) :
              i < Len(calls) => (calls[i] # "ok" /\ Caught(calls[i], exceptions))
        /\ \A i \in 1..Len(sleeps) : sleeps[i] = delay
        /\ retry_pc \in {"for", "try"} => Len(sleeps) = Len(calls)
        /\ retry_pc = "sleep" => Len(sleeps) = Len(calls) - 1
        /\ RetryEnded =>
              /\ Len(calls) >= 1
              /\ Len(sleeps) = Len(calls) - 1
        /\ retry_pc = "returned" =>
              /\ calls[Len(calls)] = "ok"
              /\ retry_result = [kind |-> "returned", value |-> Len(calls)]
        /\ retry_pc = "raised" =>
              /\ calls[Len(calls)] # "ok"
              /\ retry_result =
                    [kind |-> "raised",
                     value |-> <<calls[Len(calls)], Len(calls)>>]
              /\ Caught(calls[Len(calls)], exceptions) => Len(calls) = retries
        /\ (Len(calls) = retries /\ retry_pc # "try"
            /\ \A i \in 1..Len(calls) :
                  calls[i] # "ok" /\ Caught(calls[i], exceptions)) =>
              retry_pc = "raised"

\* three calls raised listed exceptions, with a sleep after the first and
\* after the second, and the third exception was raised
C33_Witness ==
    /\ retries = 3
    /\ retry_pc = "raised"
    /\ Len(calls) = 3
    /\ Caught(calls[3], exceptions)
    /\ sleeps = <<DefaultDelay, DefaultDelay>>

\* the second call succeeded after one sleep and its result was returned
C33_WitnessReturned ==
    /\ retries = 3
    /\ retry_pc = "returned"
    /\ Len(calls) = 2
    /\ Len(sleeps) = 1

\* an exception outside exceptions ended the call at the first attempt
C33_WitnessUnlisted ==
    /\ retries = 3
    /\ retry_pc = "raised"
    /\ Len(calls) = 1
    /\ ~Caught(calls[1], exceptions)
    /\ sleeps = <<>>

====
